---- MODULE Spec2Model ----
(***************************************************************************)
(* Model of the AtlThunk wrapper (src/src/lib.rs): a handle owning one     *)
(* thunk data block of atlthunk.dll, the binding (window procedure, first  *)
(* parameter) written into the block by AtlThunk_InitData, the entry       *)
(* pointer derived from the block by AtlThunk_DataToCode, invocations      *)
(* through entry pointers, and the release of the block on drop.           *)
(***************************************************************************)
EXTENDS Integers, FiniteSets, Sequences, TLC

\* ---------------------------------------------------------------- bounds
MaxHandles == 2   \* handle objects created during one behaviour
NumBlocks == 2    \* thunk data blocks the provider can hand out
MaxBinds == 2     \* set_data calls (try_new_with's included) during one behaviour
MaxInvokes == 1   \* invocations through entry pointers during one behaviour

\* ------------------------------------------------------------- constants
NULL == 0         \* the null pointer AtlThunk_AllocateData returns on failure

Handles == 1 .. MaxHandles
Blocks == 1 .. NumBlocks

\* the two window procedures of the repository's test and the constants it binds
Procs == {"callback_1", "callback_2"}
FirstParameters == {2, 13}

\* (HWND, message, WPARAM, LPARAM) tuples the dispatcher invokes entry pointers with
Arguments == {<<0, 3, 5, 7>>, <<0, 17, 19, 23>>}

NullProc == "null"          \* the null function address
NoPointer == [st |-> "none"]  \* no entry pointer obtained
NoBinding == <<>>           \* no set_data has completed
Idle == [st |-> "idle"]     \* no call in progress

VARIABLES
    free,      \* provider: blocks not handed out
    mem,       \* provider: content of each block, [proc, first, init]
    thunk,     \* AtlThunk objects: [state, raw_thunk_ptr]
    sd,        \* the set_data call in progress on each handle
    binding,   \* arguments of the last completed set_data per handle
    prev,      \* arguments of the completed set_data before that
    held,      \* entry pointer last returned by as_window_procedure per handle
    inv,       \* invocation in flight through an entry pointer
    last,      \* the invocation that has just completed
    lastNew,   \* the try_new / try_new_with that has just returned
    nbinds,    \* set_data calls so far
    ninvokes   \* invocations so far

vars == <<free, mem, thunk, sd, binding, prev, held, inv, last, lastNew, nbinds, ninvokes>>

\* ------------------------------------------------- atlthunk.dll primitives
\* AtlThunk_AllocateData: a block of the free set, or NULL (always a possible
\* outcome; the only one when nothing is free)
AtlThunk_AllocateData == free \cup {NULL}

\* AtlThunk_DataToCode: the code address of a data block
AtlThunk_DataToCode(b) == <<"code", b>>

\* the data block an entry address executes from
CodeToData(addr) == addr[2]

\* a block as handed out: neither slot written yet
FreshBlock == [proc |-> NullProc, first |-> NULL, init |-> {}]

\* AtlThunk_InitData stores one of its two fields
AtlThunk_InitData(m, b, field, data) ==
    [m EXCEPT ![b] = IF field = "proc"
                     THEN [@ EXCEPT !.proc = data.proc, !.init = @ \cup {"proc"}]
                     ELSE [@ EXCEPT !.first = data.first, !.init = @ \cup {"first"}]]

\* AtlThunk_FreeData: the blocks go back to the provider
AtlThunk_FreeData(m, bs) == [b \in Blocks |-> IF b \in bs THEN FreshBlock ELSE m[b]]

\* ----------------------------------------------------- window procedures
Panic == "panic"
Fault == "fault"

callback_1(a) == IF a = <<2, 3, 5, 7>> THEN 11 ELSE Panic

callback_2(a) == IF a = <<13, 17, 19, 23>> THEN 29 ELSE Panic

CallTarget(t, a) ==
    IF t = "callback_1" THEN callback_1(a)
    ELSE IF t = "callback_2" THEN callback_2(a)
    ELSE Fault

\* the thunk's code: the bound constant replaces the first argument
ThunkArguments(first, args) == <<first, args[2], args[3], args[4]>>

\* ------------------------------------------------------------- AtlThunk
\* the handles that own block b
Owners(b) == {h \in Handles : thunk[h].state \in {"constructing", "live"}
                              /\ thunk[h].raw_thunk_ptr = b}

\* as_window_procedure's validity conditions for a pointer into block b: the
\* originating handle is not dropped and its data has been set ...
Bound(b) == \E h \in Owners(b) : thunk[h].state = "live" /\ binding[h] # NoBinding

\* ... and no set_data is operating on it
Rebinding(b) == \E h \in Owners(b) : sd[h] # Idle

\* the bindings completed or being written on block b
BindingsOf(b) == {binding[h] : h \in {g \in Owners(b) : binding[g] # NoBinding}}
                 \cup {sd[h].args : h \in {g \in Owners(b) : sd[g] # Idle}}

Init ==
    /\ free = Blocks
    /\ mem = [b \in Blocks |-> FreshBlock]
    /\ thunk = [h \in Handles |-> [state |-> "none", raw_thunk_ptr |-> NULL]]
    /\ sd = [h \in Handles |-> Idle]
    /\ binding = [h \in Handles |-> NoBinding]
    /\ prev = [h \in Handles |-> NoBinding]
    /\ held = [h \in Handles |-> NoPointer]
    /\ inv = Idle
    /\ last = Idle
    /\ lastNew = Idle
    /\ nbinds = 0
    /\ ninvokes = 0

\* handle objects come into being in the order of their names
Creatable(h) == /\ thunk[h].state = "none"
                /\ \A g \in Handles : g < h => thunk[g].state # "none"

\* the blocks held outside the provider
Outstanding == Blocks \ free

\* a try_new without the null check
TryNewUnchecked(p) == "Ok"

\* try_new's match on the pointer AtlThunk_AllocateData returned
TryNewResult(p) == IF p = NULL THEN "Err" ELSE "Ok"

\* a try_new that keeps the address of the provider's first block
NewThunkFixed(p) == [state |-> "live", raw_thunk_ptr |-> CHOOSE b \in Blocks : TRUE]

\* the AtlThunk try_new builds from a non-null pointer
NewThunk(p) == [state |-> "live", raw_thunk_ptr |-> p]

\* what a constructor call reports to its caller
Returned(fn, result, h, p) ==
    [st |-> "done", fn |-> fn, result |-> result, h |-> h, p |-> p,
     before |-> Outstanding]

\* AtlThunk::try_new
try_new(h) ==
    /\ Creatable(h)
    /\ \E p \in AtlThunk_AllocateData :
        /\ lastNew' = Returned("try_new", TryNewResult(p), h, p)
        /\ IF TryNewResult(p) = "Ok"
           THEN /\ thunk' = [thunk EXCEPT ![h] = NewThunk(p)]
                /\ free' = free \ {p}
           ELSE UNCHANGED <<thunk, free>>
    /\ last' = Idle
    /\ UNCHANGED <<mem, sd, binding, prev, held, inv, nbinds, ninvokes>>

\* a set_data that passes the null handle instead of first_parameter
SetDataArgsNoParameter(window_procedure, first_parameter) ==
    [proc |-> window_procedure, first |-> NULL]

\* a set_data that always passes the first window procedure
SetDataArgsOneProc(window_procedure, first_parameter) ==
    [proc |-> "callback_1", first |-> first_parameter]

\* the arguments set_data hands to AtlThunk_InitData
SetDataArgs(window_procedure, first_parameter) ==
    [proc |-> window_procedure, first |-> first_parameter]

\* a set_data that writes to the provider's first block
SetDataBlockFixed(h) == CHOOSE b \in Blocks : TRUE

\* the block set_data writes to
SetDataBlock(h) == thunk[h].raw_thunk_ptr

\* a set_data that takes effect on the first binding only
SetDataCallOnce(h, window_procedure, first_parameter) ==
    [sd EXCEPT ![h] = [st |-> "writing",
                       args |-> <<window_procedure, first_parameter>>,
                       data |-> IF binding[h] = NoBinding
                                THEN SetDataArgs(window_procedure, first_parameter)
                                ELSE SetDataArgs(binding[h][1], binding[h][2]),
                       todo |-> {"proc", "first"}]]

\* a set_data that clears the constant when handed the binding already in place
SetDataCallClearing(h, window_procedure, first_parameter) ==
    [sd EXCEPT ![h] = [st |-> "writing",
                       args |-> <<window_procedure, first_parameter>>,
                       data |-> IF binding[h] = <<window_procedure, first_parameter>>
                                THEN SetDataArgs(window_procedure, NULL)
                                ELSE SetDataArgs(window_procedure, first_parameter),
                       todo |-> {"proc", "first"}]]

\* set_data is entered: AtlThunk_InitData has both fields to store
SetDataCall(h, window_procedure, first_parameter) ==
    [sd EXCEPT ![h] = [st |-> "writing",
                       args |-> <<window_procedure, first_parameter>>,
                       data |-> SetDataArgs(window_procedure, first_parameter),
                       todo |-> {"proc", "first"}]]

\* an invocation in flight through block b overlaps a set_data
Overlap(b, window_procedure, first_parameter) ==
    IF inv # Idle /\ CodeToData(inv.addr) = b
    THEN [inv EXCEPT !.overlap = TRUE,
                     !.during = @ \cup {<<window_procedure, first_parameter>>}]
    ELSE inv

\* an invocation in flight through block b loses the handle it came from
Gone(b) ==
    IF inv # Idle /\ CodeToData(inv.addr) = b
    THEN [inv EXCEPT !.gone = TRUE]
    ELSE inv

\* a try_new_with that calls set_data whatever try_new returned
try_new_with_unchecked(h, window_procedure, first_parameter) ==
    /\ Creatable(h)
    /\ nbinds < MaxBinds
    /\ \E p \in AtlThunk_AllocateData :
        /\ thunk' = [thunk EXCEPT ![h] = [NewThunk(p) EXCEPT !.state = "constructing"]]
        /\ free' = free \ {p}
        /\ inv' = IF p = NULL THEN inv ELSE Gone(p)
    /\ sd' = SetDataCall(h, window_procedure, first_parameter)
    /\ nbinds' = nbinds + 1
    /\ last' = Idle /\ lastNew' = Idle
    /\ UNCHANGED <<mem, binding, prev, held, ninvokes>>

\* AtlThunk::try_new_with, up to the call of set_data
try_new_with(h, window_procedure, first_parameter) ==
    /\ Creatable(h)
    /\ nbinds < MaxBinds
    /\ \E p \in AtlThunk_AllocateData :
        IF TryNewResult(p) = "Ok"
        THEN /\ thunk' = [thunk EXCEPT ![h] = [NewThunk(p) EXCEPT !.state = "constructing"]]
             /\ free' = free \ {p}
             /\ sd' = SetDataCall(h, window_procedure, first_parameter)
             /\ inv' = Gone(p)
             /\ nbinds' = nbinds + 1
             /\ lastNew' = Idle
        ELSE /\ lastNew' = Returned("try_new_with", "Err", h, p)
             /\ UNCHANGED <<thunk, free, sd, inv, nbinds>>
    /\ last' = Idle
    /\ UNCHANGED <<mem, binding, prev, held, ninvokes>>

\* a set_data that moves the handle to another block when one is free
set_data_moving(h, window_procedure, first_parameter) ==
    /\ thunk[h].state = "live"
    /\ sd[h] = Idle
    /\ nbinds < MaxBinds
    /\ sd' = SetDataCall(h, window_procedure, first_parameter)
    /\ inv' = Overlap(SetDataBlock(h), window_procedure, first_parameter)
    /\ nbinds' = nbinds + 1
    /\ last' = Idle /\ lastNew' = Idle
    /\ IF free = {}
       THEN UNCHANGED <<free, thunk>>
       ELSE \E p \in free :
               /\ thunk' = [thunk EXCEPT ![h].raw_thunk_ptr = p]
               /\ free' = (free \ {p}) \cup {thunk[h].raw_thunk_ptr}
    /\ UNCHANGED <<mem, binding, prev, held, ninvokes>>

\* AtlThunk::set_data: entry, with exclusive access to the handle
set_data(h, window_procedure, first_parameter) ==
    /\ thunk[h].state = "live"
    /\ sd[h] = Idle
    /\ nbinds < MaxBinds
    /\ sd' = SetDataCall(h, window_procedure, first_parameter)
    /\ inv' = Overlap(SetDataBlock(h), window_procedure, first_parameter)
    /\ nbinds' = nbinds + 1
    /\ last' = Idle /\ lastNew' = Idle
    /\ UNCHANGED <<free, mem, thunk, binding, prev, held, ninvokes>>

\* AtlThunk::set_data: AtlThunk_InitData stores one field; after the second
\* store set_data returns (and try_new_with returns its result)
InitDataWrite(h, field) ==
    /\ sd[h] # Idle
    /\ field \in sd[h].todo
    /\ mem' = AtlThunk_InitData(mem, SetDataBlock(h), field, sd[h].data)
    /\ IF sd[h].todo = {field}
       THEN /\ sd' = [sd EXCEPT ![h] = Idle]
            /\ binding' = [binding EXCEPT ![h] = sd[h].args]
            /\ prev' = [prev EXCEPT ![h] = binding[h]]
            /\ held' = [held EXCEPT ![h] = IF @ = NoPointer THEN @
                                           ELSE [@ EXCEPT !.rebound = TRUE]]
            /\ IF thunk[h].state = "constructing"
               THEN /\ thunk' = [thunk EXCEPT ![h].state = "live"]
                    /\ lastNew' = [Returned("try_new_with", "Ok", h, thunk[h].raw_thunk_ptr)
                                      EXCEPT !.before = @ \ {thunk[h].raw_thunk_ptr}]
               ELSE /\ lastNew' = Idle
                    /\ UNCHANGED thunk
       ELSE /\ sd' = [sd EXCEPT ![h].todo = @ \ {field}]
            /\ lastNew' = Idle
            /\ UNCHANGED <<binding, prev, held, thunk>>
    /\ last' = Idle
    /\ UNCHANGED <<free, inv, nbinds, ninvokes>>

\* an as_window_procedure that yields another block's address while unbound
WindowProcedureOfUnbound(h) ==
    AtlThunk_DataToCode(IF binding[h] # NoBinding
                        THEN thunk[h].raw_thunk_ptr
                        ELSE CHOOSE b \in Blocks : b # thunk[h].raw_thunk_ptr)

\* an as_window_procedure whose result depends on the binding
WindowProcedureOfBinding(h) ==
    AtlThunk_DataToCode(IF binding[h] = NoBinding
                        THEN thunk[h].raw_thunk_ptr
                        ELSE CHOOSE b \in Blocks : b # thunk[h].raw_thunk_ptr)

\* the address as_window_procedure returns
WindowProcedureOf(h) == AtlThunk_DataToCode(thunk[h].raw_thunk_ptr)

\* an as_window_procedure that waits for the invocation in flight to return
as_window_procedure_waiting(h) ==
    /\ thunk[h].state = "live"
    /\ sd[h] = Idle
    /\ inv = Idle
    /\ held' = [held EXCEPT ![h] = [st |-> "held", addr |-> WindowProcedureOf(h),
                                    bound |-> binding[h] # NoBinding,
                                    rebound |-> FALSE]]
    /\ last' = Idle /\ lastNew' = Idle
    /\ UNCHANGED <<free, mem, thunk, sd, binding, prev, inv, nbinds, ninvokes>>

\* an as_window_procedure called while set_data is operating on the handle
as_window_procedure_shared(h) ==
    /\ thunk[h].state = "live"
    /\ held' = [held EXCEPT ![h] = [st |-> "held", addr |-> WindowProcedureOf(h),
                                    bound |-> binding[h] # NoBinding,
                                    rebound |-> FALSE]]
    /\ last' = Idle /\ lastNew' = Idle
    /\ UNCHANGED <<free, mem, thunk, sd, binding, prev, inv, nbinds, ninvokes>>

\* AtlThunk::as_window_procedure
as_window_procedure(h) ==
    /\ thunk[h].state = "live"
    /\ sd[h] = Idle
    /\ held' = [held EXCEPT ![h] = [st |-> "held", addr |-> WindowProcedureOf(h),
                                    bound |-> binding[h] # NoBinding,
                                    rebound |-> FALSE]]
    /\ last' = Idle /\ lastNew' = Idle
    /\ UNCHANGED <<free, mem, thunk, sd, binding, prev, inv, nbinds, ninvokes>>

\* a drop that releases nothing
DropFreesNothing(h) == {}

\* the blocks drop hands to AtlThunk_FreeData
DropFrees(h) == {thunk[h].raw_thunk_ptr}

\* a drop that waits until no entry pointer of the handle is held or running
drop_counted(h) ==
    /\ thunk[h].state = "live"
    /\ sd[h] = Idle
    /\ held[h] = NoPointer
    /\ thunk' = [thunk EXCEPT ![h].state = "dropped"]
    /\ free' = free \cup DropFrees(h)
    /\ mem' = AtlThunk_FreeData(mem, DropFrees(h))
    /\ binding' = [binding EXCEPT ![h] = NoBinding]
    /\ prev' = [prev EXCEPT ![h] = NoBinding]
    /\ inv' = Gone(thunk[h].raw_thunk_ptr)
    /\ last' = Idle /\ lastNew' = Idle
    /\ UNCHANGED <<sd, held, nbinds, ninvokes>>

\* impl Drop for AtlThunk
drop(h) ==
    /\ thunk[h].state = "live"
    /\ sd[h] = Idle
    /\ thunk' = [thunk EXCEPT ![h].state = "dropped"]
    /\ free' = free \cup DropFrees(h)
    /\ mem' = AtlThunk_FreeData(mem, DropFrees(h))
    /\ binding' = [binding EXCEPT ![h] = NoBinding]
    /\ prev' = [prev EXCEPT ![h] = NoBinding]
    /\ inv' = Gone(thunk[h].raw_thunk_ptr)
    /\ last' = Idle /\ lastNew' = Idle
    /\ UNCHANGED <<sd, held, nbinds, ninvokes>>

\* ---------------------------------------------------------- invocations
\* what the thunk's load of a slot yields: its content, or anything when the
\* slot was never written
Load(b, field) ==
    IF field = "proc"
    THEN (IF "proc" \in mem[b].init THEN {mem[b].proc} ELSE Procs \cup {NullProc})
    ELSE (IF "first" \in mem[b].init THEN {mem[b].first} ELSE FirstParameters \cup {NULL})

\* the dispatcher calls the entry pointer obtained from handle h; the thunk
\* loads the constant
InvokeEnter(h, args) ==
    /\ inv = Idle
    /\ held[h] # NoPointer
    /\ ninvokes < MaxInvokes
    /\ LET b == CodeToData(held[h].addr) IN
       \E v \in Load(b, "first") :
          inv' = [st |-> "entered", h |-> h, addr |-> held[h].addr, args |-> args,
                  first |-> v, gone |-> ~Bound(b), overlap |-> Rebinding(b),
                  during |-> BindingsOf(b),
                  bound |-> held[h].bound, rebound |-> held[h].rebound]
    /\ ninvokes' = ninvokes + 1
    /\ last' = Idle /\ lastNew' = Idle
    /\ UNCHANGED <<free, mem, thunk, sd, binding, prev, held, nbinds>>

\* the thunk transfers control to the target; the target's return value is
\* the invocation's result
InvokeJump ==
    /\ inv # Idle
    /\ \E target \in Load(CodeToData(inv.addr), "proc") :
          LET a == ThunkArguments(inv.first, inv.args)
          IN last' = [st |-> "done", h |-> inv.h, addr |-> inv.addr, args |-> inv.args,
                      calls |-> IF target = NullProc THEN <<>>
                                ELSE <<[target |-> target, args |-> a]>>,
                      result |-> CallTarget(target, a),
                      gone |-> inv.gone, overlap |-> inv.overlap, during |-> inv.during,
                      bound |-> inv.bound, rebound |-> inv.rebound]
    /\ inv' = Idle
    /\ lastNew' = Idle
    /\ UNCHANGED <<free, mem, thunk, sd, binding, prev, held, nbinds, ninvokes>>

Next ==
    \/ \E h \in Handles : try_new(h)
    \/ \E h \in Handles, t \in Procs, c \in FirstParameters : try_new_with(h, t, c)
    \/ \E h \in Handles, t \in Procs, c \in FirstParameters : set_data(h, t, c)
    \/ \E h \in Handles, f \in {"proc", "first"} : InitDataWrite(h, f)
    \/ \E h \in Handles : as_window_procedure(h)
    \/ \E h \in Handles : drop(h)
    \/ \E h \in Handles, a \in Arguments : InvokeEnter(h, a)
    \/ InvokeJump

Spec == Init /\ [][Next]_vars

\* ------------------------------------------------------------ properties
\* the invocation that has just completed kept to as_window_procedure's
\* validity conditions from entry to return
Valid(r) == r.st = "done" /\ ~r.gone /\ ~r.overlap

\* the (target, constant) pairs the completed invocation delivered
Observed(r) == {<<r.calls[i].target, r.calls[i].args[1]>> : i \in 1 .. Len(r.calls)}

\* the handles in use
Allocated == {h \in Handles : thunk[h].state \in {"constructing", "live"}}

\* C1: a valid invocation through the entry pointer calls the bound target
\* exactly once with (constant, message, w, l) and returns the target's result
C1_RoundTrip ==
    Valid(last) =>
        \E bnd \in last.during :
            LET a == <<bnd[2], last.args[2], last.args[3], last.args[4]>> IN
            /\ last.during = {bnd}
            /\ last.calls = <<[target |-> bnd[1], args |-> a]>>
            /\ last.result = CallTarget(bnd[1], a)

\* the test's scenario: callback_1 bound with 2, invoked with (0, 3, 5, 7), yields 11
C1_Witness ==
    /\ Valid(last)
    /\ last.during = {<<"callback_1", 2>>}
    /\ last.args = <<0, 3, 5, 7>>
    /\ last.result = 11

\* C2: once a handle has been bound a second time, its block holds the second
\* binding only, and a valid invocation reaches the second target with the
\* second constant
C2_RebindOverwrite ==
    \A h \in Handles :
        (thunk[h].state = "live" /\ sd[h] = Idle /\ prev[h] # NoBinding) =>
            /\ mem[thunk[h].raw_thunk_ptr] =
                   [proc |-> binding[h][1], first |-> binding[h][2], init |-> {"proc", "first"}]
            /\ (Valid(last) /\ CodeToData(last.addr) = thunk[h].raw_thunk_ptr)
                   => Observed(last) = {binding[h]}

\* an invocation after (A, cA) was overwritten by (B, cB), both fields differing
C2_Witness ==
    \E h \in Handles :
        /\ thunk[h].state = "live" /\ sd[h] = Idle
        /\ prev[h] # NoBinding
        /\ prev[h][1] # binding[h][1] /\ prev[h][2] # binding[h][2]
        /\ Valid(last) /\ CodeToData(last.addr) = thunk[h].raw_thunk_ptr

C4_AllocationFailure ==
    (lastNew.st = "done" /\ lastNew.p = NULL) =>
        /\ lastNew.result = "Err"
        /\ thunk[lastNew.h] = [state |-> "none", raw_thunk_ptr |-> NULL]
        /\ sd[lastNew.h] = Idle
        /\ Outstanding = lastNew.before
        /\ Outstanding = {thunk[h].raw_thunk_ptr : h \in Allocated}

\* try_new_with fails while another handle holds a block
C4_Witness ==
    /\ lastNew.st = "done" /\ lastNew.p = NULL
    /\ lastNew.fn = "try_new_with"
    /\ Outstanding # {}

\* C5 as stated: every entry pointer handed out was read from a bound handle
C5_EntryOnlyWhenBound ==
    \A h \in Handles : held[h] # NoPointer => held[h].bound

\* C5, amended: as_window_procedure hands out the entry address of the
\* handle's own block whether or not the handle is bound, and a pointer read
\* before the first binding reaches the binding once one has completed
C5_EntryOfAllocated ==
    /\ \A h \in Handles :
          (held[h] # NoPointer /\ thunk[h].state = "live") =>
              /\ thunk[h].raw_thunk_ptr \in Outstanding
              /\ CodeToData(held[h].addr) = thunk[h].raw_thunk_ptr
    /\ (Valid(last) /\ ~last.bound) =>
          /\ Observed(last) # {}
          /\ Observed(last) \subseteq last.during

\* a pointer read from an unbound handle is invoked after the first binding
C5_Witness == Valid(last) /\ ~last.bound /\ Len(last.calls) = 1

\* C6: a block goes back to the provider only at the drop of the handle that
\* owns it, every drop releases the handle's block, which was held until then,
\* and nothing is performed on a dropped handle
C6_ReleaseOnce ==
    [][ /\ \A b \in Blocks :
              (b \in free' /\ b \notin free) =>
                  \E h \in Handles : /\ thunk[h].state = "live"
                                     /\ thunk'[h].state = "dropped"
                                     /\ thunk[h].raw_thunk_ptr = b
        /\ \A h \in Handles :
              (thunk[h].state = "live" /\ thunk'[h].state = "dropped") =>
                  /\ thunk[h].raw_thunk_ptr \notin free
                  /\ thunk[h].raw_thunk_ptr \in free'
        /\ \A h \in Handles :
              (thunk[h].state # "dropped" /\ thunk'[h].state # "dropped") =>
                  (thunk[h].raw_thunk_ptr \in Blocks => thunk[h].raw_thunk_ptr \notin free)
        /\ \A h \in Handles :
              thunk[h].state = "dropped" =>
                  /\ thunk'[h] = thunk[h]
                  /\ sd[h] = Idle /\ sd'[h] = Idle
                  /\ held'[h] = held[h]
                  /\ binding'[h] = NoBinding
      ]_vars

\* a handle has been dropped and its block is back with the provider
C6_Witness ==
    \E h \in Handles : thunk[h].state = "dropped" /\ thunk[h].raw_thunk_ptr \in free

C8_RebindIsolation ==
    [][ \A h \in Handles :
           (sd'[h] # sd[h]) =>
               \A g \in Allocated \ {h} :
                   (sd'[g] = sd[g]) =>
                       /\ thunk'[g] = thunk[g]
                       /\ mem'[thunk[g].raw_thunk_ptr] = mem[thunk[g].raw_thunk_ptr]
                       /\ binding'[g] = binding[g]
                       /\ held'[g] = held[g]
      ]_vars

\* set_data calls on two handles are in progress at once, each half written
C8_Witness ==
    \E h, g \in Handles :
        /\ h # g
        /\ sd[h] # Idle /\ sd[g] # Idle
        /\ Cardinality(sd[h].todo) = 1 /\ Cardinality(sd[g].todo) = 1
        /\ thunk[h].state = "live" /\ thunk[g].state = "live"

\* C9: as_window_procedure returns the same address at every call on one
\* handle, the address of the handle's block, and a pointer obtained before a
\* rebind reaches the new binding once the rebind has completed
C9_StableEntry ==
    [][ /\ \A h \in Handles :
              (held[h] # NoPointer /\ held'[h] # NoPointer) => held'[h].addr = held[h].addr
        /\ \A h \in Handles :
              (held'[h] # NoPointer /\ thunk'[h].state = "live") =>
                  held'[h].addr = AtlThunk_DataToCode(thunk'[h].raw_thunk_ptr)
        /\ (Valid(last') /\ last'.rebound) =>
              \A h \in Handles :
                  (thunk'[h].state = "live" /\ thunk'[h].raw_thunk_ptr = CodeToData(last'.addr))
                      => Observed(last') = {binding'[h]}
      ]_vars

\* a pointer obtained under the first binding is invoked under the second
C9_Witness ==
    /\ Valid(last) /\ last.rebound /\ last.bound
    /\ \E h \in Handles : /\ thunk[h].state = "live"
                          /\ thunk[h].raw_thunk_ptr = CodeToData(last.addr)
                          /\ prev[h] # NoBinding /\ prev[h] # binding[h]

\* C10: set_data on a live handle, bound or not, performs no allocation and no
\* release, keeps the handle's block, reports no error, always has a next
\* step, and leaves the handle bound to its arguments
C10_RebindInfallible ==
    [][ \A h \in Handles :
           (thunk[h].state = "live" /\ sd'[h] # sd[h]) =>
               /\ free' = free
               /\ thunk'[h] = thunk[h]
               /\ lastNew' = Idle
               /\ (sd'[h] # Idle => sd'[h].todo # {})
               /\ (sd'[h] = Idle =>
                      /\ binding'[h] = sd[h].args
                      /\ mem'[thunk[h].raw_thunk_ptr] =
                            [proc |-> sd[h].args[1], first |-> sd[h].args[2],
                             init |-> {"proc", "first"}])
      ]_vars

\* set_data has completed on a handle that try_new had left unbound
C10_Witness ==
    \E h \in Handles :
        /\ thunk[h].state = "live" /\ sd[h] = Idle
        /\ binding[h] # NoBinding
        /\ held[h] # NoPointer /\ ~held[h].bound /\ held[h].rebound

\* C11: the blocks held outside the provider are as many as the handles in
\* use, and the block of a dropped handle is back in the provider's free set
\* unless the provider has handed it out again
C11_ReleaseReturns ==
    /\ Cardinality(Outstanding) = Cardinality(Allocated)
    /\ \A h \in Handles :
          thunk[h].state = "dropped" =>
              \/ thunk[h].raw_thunk_ptr \in free
              \/ \E g \in Allocated : thunk[g].raw_thunk_ptr = thunk[h].raw_thunk_ptr

\* a later allocation has returned the address of a dropped handle's block
C11_Witness ==
    \E h, g \in Handles :
        /\ thunk[h].state = "dropped"
        /\ thunk[g].state = "live"
        /\ thunk[g].raw_thunk_ptr = thunk[h].raw_thunk_ptr

\* C12: a live handle no set_data is operating on can be dropped whatever
\* entry pointers are held or running, and the pointer of a dropped handle
\* refers to a block that is free and unwritten or belongs to another handle
C12_WeakPointers ==
    \A h \in Handles :
        /\ (thunk[h].state = "live" /\ sd[h] = Idle) => ENABLED drop(h)
        /\ (thunk[h].state = "dropped" /\ held[h] # NoPointer) =>
              LET b == CodeToData(held[h].addr) IN
              /\ h \notin Owners(b)
              /\ \/ b \in free /\ mem[b].init = {}
                 \/ \E g \in Allocated \ {h} : thunk[g].raw_thunk_ptr = b

\* a stale pointer equals the entry address of a later-created live handle
C12_Witness ==
    \E h, g \in Handles :
        /\ h < g
        /\ thunk[h].state = "dropped" /\ held[h] # NoPointer
        /\ thunk[g].state = "live"
        /\ held[h].addr = WindowProcedureOf(g)

\* C13: as_window_procedure changes neither a block, a binding, the free set,
\* a handle, a set_data in progress nor the invocation in flight, and it can
\* be performed on a live handle whenever no set_data operates on it, also
\* while an invocation is running
C13_ConcurrentReads ==
    [][ /\ \A h \in Handles :
              (held'[h] # held[h] /\ sd[h] = Idle) =>
                  /\ mem' = mem /\ free' = free /\ thunk' = thunk
                  /\ sd' = sd /\ binding' = binding /\ inv' = inv
                  /\ held'[h].addr = AtlThunk_DataToCode(thunk[h].raw_thunk_ptr)
        /\ \A h \in Handles :
              (thunk[h].state = "live" /\ sd[h] = Idle) => ENABLED as_window_procedure(h)
      ]_vars

\* as_window_procedure has returned on a handle while an invocation through a
\* pointer obtained before the last rebind was running
C13_Witness ==
    /\ inv.st = "entered"
    /\ inv.rebound
    /\ held[inv.h] # NoPointer /\ ~held[inv.h].rebound
    /\ thunk[inv.h].state = "live"

\* C14: a set_data handed the binding already in place changes neither the
\* block, the binding, the handle nor the entry pointer's address
C14_Idempotent ==
    [][ \A h \in Handles :
           (sd[h] # Idle /\ sd'[h] # sd[h] /\ sd[h].args = binding[h]) =>
               /\ mem' = mem
               /\ binding'[h] = binding[h]
               /\ thunk'[h] = thunk[h]
               /\ WindowProcedureOf(h)' = WindowProcedureOf(h)
               /\ (held[h] # NoPointer => held'[h].addr = held[h].addr)
      ]_vars

\* set_data(t, c) has returned twice in a row on one handle
C14_Witness ==
    \E h \in Handles :
        /\ thunk[h].state = "live" /\ sd[h] = Idle
        /\ binding[h] # NoBinding /\ prev[h] = binding[h]
        /\ held[h] # NoPointer

\* C15: while set_data operates on a handle, no other set_data, no
\* as_window_procedure and no drop can be performed on that handle, and the
\* call in progress stays the same call until it returns
C15_ExclusiveRebind ==
    [][ \A h \in Handles :
           sd[h] # Idle =>
               /\ \A t \in Procs, c \in FirstParameters : ~ENABLED set_data(h, t, c)
               /\ ~ENABLED as_window_procedure(h)
               /\ ~ENABLED drop(h)
               /\ thunk'[h].state # "dropped"
               /\ (sd'[h] # Idle => /\ sd'[h].args = sd[h].args
                                    /\ sd'[h].todo \subseteq sd[h].todo)
               /\ (held[h] # NoPointer => held'[h].addr = held[h].addr)
      ]_vars

\* an invocation through a pointer obtained earlier runs while set_data
\* operates on the handle, with more set_data calls still to come
C15_Witness ==
    \E h \in Handles :
        /\ thunk[h].state = "live" /\ sd[h] # Idle
        /\ nbinds < MaxBinds
        /\ inv.st = "entered" /\ inv.h = h /\ inv.overlap

\* C16: set_data operates only on a handle whose block is non-null and held
\* outside the provider; a failing constructor writes no block, releases
\* nothing and starts no set_data; a block is written and its entry address
\* is taken only while it is held outside the provider
C16_ProviderOrder ==
    [][ /\ \A h \in Handles :
              sd'[h] # Idle =>
                  /\ thunk'[h].raw_thunk_ptr # NULL
                  /\ thunk'[h].raw_thunk_ptr \in Blocks \ free'
        /\ (lastNew'.st = "done" /\ lastNew'.result = "Err") =>
              /\ lastNew'.p = NULL
              /\ mem' = mem /\ free' = free /\ sd' = sd /\ thunk' = thunk
        /\ \A b \in Blocks :
              (mem'[b] # mem[b] /\ mem'[b].init # {}) => (b \notin free /\ b \notin free')
        /\ \A h \in Handles :
              (held'[h] # held[h] /\ sd[h] = Idle) =>
                  /\ CodeToData(held'[h].addr) \in Blocks \ free
                  /\ CodeToData(held'[h].addr) \in Blocks \ free'
      ]_vars

\* try_new_with has returned a bound handle on a block that an earlier handle
\* had released
C16_Witness ==
    /\ lastNew.st = "done" /\ lastNew.fn = "try_new_with" /\ lastNew.result = "Ok"
    /\ mem[lastNew.p].init = {"proc", "first"}
    /\ \E g \in Handles : /\ thunk[g].state = "dropped"
                          /\ thunk[g].raw_thunk_ptr = lastNew.p
                          /\ held[g] # NoPointer

====
